---- MODULE Spec2Model ----
(***************************************************************************)
(* The per-frame combat step of the four engines of the repository:        *)
(*   "kinematic"  useBattleRoyale          (src/src/App.tsx 53-202)        *)
(*                melee + storm, the engine integrates the positions       *)
(*   "ringout"    useBattleRoyalePhysics   (src/src/App.tsx 425-559)       *)
(*                push + ring-out, poses read from rigid bodies            *)
(*   "melee"      useBattleRoyalePhysics   (src/src/App.tsx 792-940)       *)
(*                melee + storm, poses read from rigid bodies              *)
(*   "wall"       useBattleRoyalePhysics   (src/unnamed/part_000 47-196)   *)
(*                push + queued wall-touch eliminations                    *)
(*                                                                         *)
(* Numbers are fixed point.  Lengths: 1 = 0.1 world unit.  Velocities:     *)
(* 1 = 0.1 unit/s.  Times: 1 = 0.05 s.  Health: 1 = 0.1 hp.  Unit vectors  *)
(* and the desired vector: 1 = 0.001.  The zone radius is kept times 150   *)
(* (1 = 1/1500 world unit) so that the linear shrink is exact.             *)
(*                                                                         *)
(* The roster lives in React state: the frame callback reads the roster    *)
(* of the render that created it (bots) and hands the next roster to       *)
(* setBots (reactBots); a later render makes it the callback's roster.     *)
(***************************************************************************)
EXTENDS Integers, Sequences, FiniteSets, TLC

\* ---- bounds of the model -------------------------------------------------
BOT_COUNT == 3
MaxTicks == 2

Ids == 0..(BOT_COUNT - 1)
None == -1
NoCmd == <<>>
Variants == {"kinematic", "ringout", "melee", "wall"}

VARIABLES
  variant,      \* which engine is mounted
  bots,         \* roster captured by the frame callback (state of the last render)
  reactBots,    \* roster last handed to setBots
  aliveCount,   \* useMemo count of the last render
  winner,       \* winner id of the last render, None when there is none
  bodies,       \* rigid bodies: pose, velocity, enabled
  zone,         \* zone ref: t and radius
  now,          \* performance.now() / 1000 at the last frame
  pendingElims, \* pendingElimsRef
  log,          \* what the last frame did: commands, combat actions, turns taken
  actedAt,      \* per bot, the clock of its last hit or push as performed
  ticks         \* number of frames run

vars == <<variant, bots, reactBots, aliveCount, winner, bodies, zone, now,
          pendingElims, log, actedAt, ticks>>

\* frame deltas: 0.2 s, 0.45 s and, where a storm runs, a 5.5 s stall
DtSet == IF variant \in {"kinematic", "melee"} THEN {4, 9, 110} ELSE {4, 9}

\* ---- tunables --------------------------------------------------------------
HasZone == variant \in {"kinematic", "melee"}
IsPush == variant \in {"ringout", "wall"}
IsPhysics == variant # "kinematic"

ARENA_RADIUS == IF variant = "wall" THEN 160 ELSE 320
BOT_SPEED == IF IsPush THEN 60 ELSE 52
BOT_ACCEL == IF IsPush THEN 160 ELSE 140
BOT_SEPARATION == IF IsPush THEN 20 ELSE 22
ATTACK_RANGE == 16
\* ATTACK_DPS * ATTACK_COOLDOWN = 22 * 0.45 = 9.9 hp
ATTACK_DAMAGE == 99
ATTACK_COOLDOWN == 9
PUSH_RANGE == 13
PUSH_COOLDOWN == 8
PUSH_IMPULSE == 55
\* cos(FOV * 0.5) = cos(0.55 pi), times 10^6
COS_HALF_FOV == -156434
\* ARENA_RADIUS * 0.95 and ZONE_END_RADIUS, times 150
ZONE_START_RADIUS == 45600
ZONE_END_RADIUS == 6000
GAME_DURATION == 3600
\* STORM_DPS = 18 hp/s = 9 tenths of hp per 0.05 s
STORM_DPS == 9
FULL_HP == 1000
\* lastHitAt / lastPushAt = -999 s
NEVER == -19980
\* keep-in-arena pull of 2.5, in tenths
PULL_GAIN == 25

\* ---- arithmetic ------------------------------------------------------------
\* F applied to the value of v, computed once (TLC evaluates LET lazily)
Strict(F(_), v) == CHOOSE r \in {F(w) : w \in {v}} : TRUE

Abs(a) == IF a < 0 THEN -a ELSE a
Max2(a, b) == IF a > b THEN a ELSE b
\* division truncating toward zero
Div(a, b) == IF a >= 0 THEN a \div b ELSE -((-a) \div b)

RECURSIVE IsqrtIter(_, _, _)
IsqrtIter(n, lo, hi) ==
  IF lo >= hi THEN lo
  ELSE LET mid == (lo + hi + 1) \div 2
       IN IF mid * mid <= n THEN IsqrtIter(n, mid, hi) ELSE IsqrtIter(n, lo, mid - 1)
\* floor of the square root
Isqrt(n) == IsqrtIter(n, 0, 46340)
\* 100 * sqrt(n), rounded down
Sqrt100(n) ==
  LET k == IF n <= 200000 THEN 100 ELSE IF n <= 20000000 THEN 10 ELSE 1
  IN (100 \div k) * Isqrt(n * k * k)

sub(a, b) == <<a[1] - b[1], a[2] - b[2], a[3] - b[3]>>
add(a, b) == <<a[1] + b[1], a[2] + b[2], a[3] + b[3]>>
\* squared length
lenSq(x, y, z) == x * x + y * y + z * z

\* norm: the unit vector times 1000; the zero vector is returned as it is (l = 0 || 1)
norm(x, y, z) ==
  LET m == Max2(Abs(x), Max2(Abs(y), Abs(z)))
      k == IF m > 20000 THEN (m \div 20000) + 1 ELSE 1
      xs == Div(x, k)
      ys == Div(y, k)
      zs == Div(z, k)
      n == lenSq(xs, ys, zs)
  IN IF n = 0 THEN <<0, 0, 0>>
     ELSE Strict(LAMBDA l : <<Div(xs * 100000, l), Div(ys * 100000, l),
                              Div(zs * 100000, l)>>, Sqrt100(n))

\* ---- roster ----------------------------------------------------------------
\* spawn of the kinematic engine: a point of the donut for each bot
SpawnPos(i) == <<0, 0, 100 + 10 * i>>

\* the records numbered from the other end of the array
InitBotRenumbered(i) ==
  [id |-> BOT_COUNT - 1 - i,
   pos |-> IF variant = "kinematic" THEN SpawnPos(i) ELSE <<0, 0, 0>>,
   vel |-> <<0, 0, 0>>,
   hp |-> FULL_HP,
   alive |-> TRUE,
   last |-> NEVER,
   targetId |-> None]

\* the records with the cooldown stamp started at the clock's origin
InitBotStampedAtStart(i) ==
  [id |-> i,
   pos |-> IF variant = "kinematic" THEN SpawnPos(i) ELSE <<0, 0, 0>>,
   vel |-> <<0, 0, 0>>,
   hp |-> FULL_HP,
   alive |-> TRUE,
   last |-> NEVER - NEVER,
   targetId |-> None]

InitBot(i) ==
  [id |-> i,
   pos |-> IF variant = "kinematic" THEN SpawnPos(i) ELSE <<0, 0, 0>>,
   vel |-> <<0, 0, 0>>,
   hp |-> FULL_HP,
   alive |-> TRUE,
   last |-> NEVER,
   targetId |-> None]

AliveIds(bs) == {i \in Ids : bs[i].alive}
\* aliveCount = bots.filter(b => b.alive).length
CountAlive(bs) == Cardinality(AliveIds(bs))
\* bots.find(b => b.alive): the first alive record
FindAlive(bs) ==
  IF AliveIds(bs) = {} THEN None
  ELSE CHOOSE i \in AliveIds(bs) : \A j \in AliveIds(bs) : i <= j

\* a winner declared whenever somebody is alive
WinnerOfAnySurvivor(count, bs) == IF count >= 1 THEN FindAlive(bs) ELSE None

\* winner = aliveCount === 1 ? bots.find(b => b.alive) ?? null : null
WinnerOf(count, bs) == IF count = 1 THEN FindAlive(bs) ELSE None

\* ---- zone ------------------------------------------------------------------
clamp(x, a, b) == IF x < a THEN a ELSE IF x > b THEN b ELSE x
\* the zone timer without its clamp
ZoneTUnclamped(t, dt) == t + dt

ZoneT(t, dt) == clamp(t + dt, 0, GAME_DURATION)
\* ZONE_START_RADIUS * (1 - k) + ZONE_END_RADIUS * k with k = t / GAME_DURATION
ZoneRadius(t) ==
  (ZONE_START_RADIUS * (GAME_DURATION - t) + ZONE_END_RADIUS * t) \div GAME_DURATION
ZoneStep(z, dt) ==
  IF HasZone THEN [t |-> ZoneT(z.t, dt), radius |-> ZoneRadius(ZoneT(z.t, dt))]
  ELSE z
\* len2(x, 0, z) > radius, for the radius kept times 150
OutsideZone(p, radius) ==
  LET n == lenSq(p[1], 0, p[3])
  IN n >= 92417 \/ 22500 * n > radius * radius

\* ---- poses -----------------------------------------------------------------
\* rb?.translation() and rb?.linvel(): the origin and zero when no body is registered
getPos(st, id) ==
  IF ~IsPhysics THEN st.next[id].pos
  ELSE IF st.bodies[id].present THEN st.bodies[id].pos
  ELSE <<0, 0, 0>>
getVel(st, id) ==
  IF ~IsPhysics THEN st.next[id].vel
  ELSE IF ~st.bodies[id].present THEN <<0, 0, 0>>
  ELSE IF variant = "wall" THEN st.bodies[id].vel
  ELSE <<st.bodies[id].vel[1], 0, st.bodies[id].vel[3]>>

\* the velocity the pose provider holds for the bot, before getVel shapes it
RawVel(st, id) ==
  IF ~IsPhysics THEN st.next[id].vel
  ELSE IF st.bodies[id].present THEN st.bodies[id].vel
  ELSE <<0, 0, 0>>

EmptyLog ==
  [linvel |-> [i \in Ids |-> NoCmd],
   velRead |-> [i \in Ids |-> NoCmd],
   storm |-> [i \in Ids |-> 0],
   pull |-> [i \in Ids |-> <<0, 0, 0>>],
   impulses |-> {},
   hits |-> {},
   disabled |-> {},
   turns |-> {},
   scans |-> {},
   contacts |-> {},
   sep |-> {},
   skipped |-> {}]

\* the bots that hit or pushed in the frame
Actors(l) == {h.by : h \in l.hits} \cup {h.by : h \in l.impulses}

\* ---- target selector -------------------------------------------------------
\* every other bot counted as in view
VisibleAllAround(myPos, myVel, oPos) == TRUE

\* facing <= FOV * 0.5
Visible(myPos, myVel, oPos) ==
  LET to == sub(oPos, myPos)
      forward == IF myVel[1] = 0 /\ myVel[3] = 0 THEN <<0, 0, 1000>>
                 ELSE norm(myVel[1], 0, myVel[3])
      dir == norm(to[1], 0, to[3])
      d == forward[1] * dir[1] + forward[2] * dir[2] + forward[3] * dir[3]
  IN clamp(d, -1000000, 1000000) >= COS_HALF_FOV

\* the angle test on the raw vectors: the angle between the heading (the planar
\* velocity, +Z at rest) and the planar direction "to" is at most FOV / 2 = 99
\* degrees, cos^2 = 0.02447 taken as 1/41
WithinHalfFov(vel, to) ==
  LET fx == IF vel[1] = 0 /\ vel[3] = 0 THEN 0 ELSE vel[1]
      fz == IF vel[1] = 0 /\ vel[3] = 0 THEN 1 ELSE vel[3]
      d == fx * to[1] + fz * to[3]
  IN d >= 0 \/ d * d <= ((fx * fx + fz * fz) * (to[1] * to[1] + to[3] * to[3])) \div 41

\* the sticky target kept without looking at its alive flag
ValidTargetUnchecked(next, me) == me.targetId

\* the sticky target when its record is alive, else None
ValidTarget(next, me) ==
  IF me.targetId # None /\ next[me.targetId].alive THEN me.targetId ELSE None

\* the scan keeping the last of the candidates seen, whatever its distance
ScanLastSeen(st, id, myPos, myVel, o, best, bestN) ==
  LET vis == {c \in o..(BOT_COUNT - 1) :
                c # id /\ st.next[c].alive /\ Visible(myPos, myVel, getPos(st, c))}
  IN IF vis = {} THEN best ELSE CHOOSE c \in vis : \A e \in vis : e <= c

\* the scan taking the bot itself as a candidate
RECURSIVE ScanSelfIncluded(_, _, _, _, _, _, _)
ScanSelfIncluded(st, id, myPos, myVel, o, best, bestN) ==
  IF o >= BOT_COUNT THEN best
  ELSE IF ~st.next[o].alive
    THEN ScanSelfIncluded(st, id, myPos, myVel, o + 1, best, bestN)
  ELSE LET oPos == getPos(st, o)
           to == sub(oPos, myPos)
           n == lenSq(to[1], to[2], to[3])
       IN IF Visible(myPos, myVel, oPos) /\ (bestN < 0 \/ n < bestN)
          THEN ScanSelfIncluded(st, id, myPos, myVel, o + 1, o, n)
          ELSE ScanSelfIncluded(st, id, myPos, myVel, o + 1, best, bestN)

\* the scan taking dead bots as candidates too
RECURSIVE ScanDeadIncluded(_, _, _, _, _, _, _)
ScanDeadIncluded(st, id, myPos, myVel, o, best, bestN) ==
  IF o >= BOT_COUNT THEN best
  ELSE IF o = id
    THEN ScanDeadIncluded(st, id, myPos, myVel, o + 1, best, bestN)
  ELSE LET oPos == getPos(st, o)
           to == sub(oPos, myPos)
           n == lenSq(to[1], to[2], to[3])
       IN IF Visible(myPos, myVel, oPos) /\ (bestN < 0 \/ n < bestN)
          THEN ScanDeadIncluded(st, id, myPos, myVel, o + 1, o, n)
          ELSE ScanDeadIncluded(st, id, myPos, myVel, o + 1, best, bestN)

\* the scan "for (const other of next)" from index o on; bestN < 0 is Infinity
RECURSIVE Scan(_, _, _, _, _, _, _)
Scan(st, id, myPos, myVel, o, best, bestN) ==
  IF o >= BOT_COUNT THEN best
  ELSE IF o = id \/ ~st.next[o].alive
    THEN Scan(st, id, myPos, myVel, o + 1, best, bestN)
  ELSE LET oPos == getPos(st, o)
           to == sub(oPos, myPos)
           n == lenSq(to[1], to[2], to[3])
       IN IF Visible(myPos, myVel, oPos) /\ (bestN < 0 \/ n < bestN)
          THEN Scan(st, id, myPos, myVel, o + 1, o, n)
          ELSE Scan(st, id, myPos, myVel, o + 1, best, bestN)

PickTarget(st, id, myPos, myVel) ==
  LET kept == ValidTarget(st.next, st.next[id])
  IN IF kept # None THEN kept ELSE Scan(st, id, myPos, myVel, 0, None, -1)

\* the scan noted when the bot had no valid sticky target: what it read and picked
NoteScan(st, id, myPos, myVel, tgt) ==
  IF ValidTarget(st.next, st.next[id]) # None THEN st
  ELSE [st EXCEPT !.log.scans = @ \cup
          {[by |-> id, pick |-> tgt, myPos |-> myPos, myVel |-> myVel,
            seen |-> [o \in Ids |-> [alive |-> st.next[o].alive, pos |-> getPos(st, o)]]]}]

\* ---- steering composer -----------------------------------------------------
\* seek: the vector to the target, or the unit vector to the centre
Seek(st, myPos, tgt) ==
  IF tgt # None
  THEN LET d == sub(getPos(st, tgt), myPos)
       IN <<d[1] * 100, d[2] * 100, d[3] * 100>>
  ELSE norm(-myPos[1], 0, -myPos[3])

\* a coincident neighbour counted, with a zero term
SepTermCoincidentCounted(myPos, oPos) ==
  LET dx == myPos[1] - oPos[1]
      dz == myPos[3] - oPos[3]
      n == dx * dx + dz * dz
  IN IF n = 0 THEN <<0, 0, 1>>
     ELSE IF n < BOT_SEPARATION * BOT_SEPARATION
     THEN Strict(LAMBDA d :
            <<Div(Div(dx * 100000, d) * (BOT_SEPARATION * 100 - d), BOT_SEPARATION * 100),
              Div(Div(dz * 100000, d) * (BOT_SEPARATION * 100 - d), BOT_SEPARATION * 100),
              1>>, Sqrt100(n))
     ELSE <<0, 0, 0>>

\* one neighbour's separation term (x, z), and whether it counts
SepTerm(myPos, oPos) ==
  LET dx == myPos[1] - oPos[1]
      dz == myPos[3] - oPos[3]
      n == dx * dx + dz * dz
  IN IF n > 0 /\ n < BOT_SEPARATION * BOT_SEPARATION
     THEN Strict(LAMBDA d :
            <<Div(Div(dx * 100000, d) * (BOT_SEPARATION * 100 - d), BOT_SEPARATION * 100),
              Div(Div(dz * 100000, d) * (BOT_SEPARATION * 100 - d), BOT_SEPARATION * 100),
              1>>, Sqrt100(n))
     ELSE <<0, 0, 0>>

RECURSIVE Separation(_, _, _, _, _)
Separation(st, id, myPos, o, acc) ==
  IF o >= BOT_COUNT THEN acc
  ELSE IF o = id \/ ~st.next[o].alive THEN Separation(st, id, myPos, o + 1, acc)
  ELSE Strict(LAMBDA a : Separation(st, id, myPos, o + 1, a),
              add(acc, SepTerm(myPos, getPos(st, o))))

\* the pairs the separation loop looked at: offset (dx, dz) and the term added
NoteSep(st, id, myPos) ==
  [st EXCEPT !.log.sep = @ \cup
     {[by |-> id, on |-> o,
       d |-> <<myPos[1] - getPos(st, o)[1], myPos[3] - getPos(st, o)[3]>>,
       f |-> SepTerm(myPos, getPos(st, o))] :
      o \in {o \in Ids : o # id /\ st.next[o].alive}}]

\* keep-in-arena pull, only in the engines with a zone
Pull(myPos) ==
  IF HasZone /\ 100 * lenSq(myPos[1], 0, myPos[3]) > 81 * ARENA_RADIUS * ARENA_RADIUS
  THEN LET u == norm(-myPos[1], 0, -myPos[3])
       IN <<Div(u[1] * PULL_GAIN, 10), 0, Div(u[3] * PULL_GAIN, 10)>>
  ELSE <<0, 0, 0>>

\* the pull added to the bot's desired vector, noted
NotePull(st, id, myPos) == [st EXCEPT !.log.pull[id] = Pull(myPos)]

\* seek, plus the separation sum when there are neighbours, plus the pull
Compose(seek, sep, pull) ==
  add(IF sep[3] > 0 THEN add(seek, <<sep[1], 0, sep[2]>>) ELSE seek, pull)

Desired(st, id, myPos, tgt) ==
  Strict(LAMBDA sep : Compose(Seek(st, myPos, tgt), sep, Pull(myPos)),
         Separation(st, id, myPos, 0, <<0, 0, 0>>))

\* targetVel = mul(desiredDir, BOT_SPEED)
TargetVel(desiredDir) ==
  <<Div(desiredDir[1] * BOT_SPEED, 1000), 0, Div(desiredDir[3] * BOT_SPEED, 1000)>>

\* the step taken whole, without the rate limit
ClampDvOff(dv, maxDv) == dv

\* 100 * sqrt(n) rounded up: a length the fixed-point quotient can be taken by
\* without the scaled vector growing past the limit
Sqrt100Up(n) ==
  Strict(LAMBDA l : IF n <= 200000
                    THEN (IF l * l < 10000 * n THEN l + 1 ELSE l)
                    ELSE l + 100, Sqrt100(n))

\* apply = dvLen > maxDv ? mul(dv, maxDv / (dvLen || 1)) : dv
ClampDv(dv, maxDv) ==
  IF dv[1] * dv[1] + dv[3] * dv[3] > maxDv * maxDv
  THEN Strict(LAMBDA dvLen :
         <<Div(dv[1] * maxDv * 100, dvLen), Div(dv[2] * maxDv * 100, dvLen),
           Div(dv[3] * maxDv * 100, dvLen)>>, Sqrt100Up(dv[1] * dv[1] + dv[3] * dv[3]))
  ELSE dv

\* the rate-limited step "apply" toward BOT_SPEED along the desired direction
Accel(desired, myVel, dt) ==
  Strict(LAMBDA dv : ClampDv(dv, (BOT_ACCEL * dt) \div 20),
         sub(TargetVel(norm(desired[1], 0, desired[3])), myVel))

\* the velocity the body is set to: y is kept by the wall engine, zeroed by the others
NewVel(myVel, apply) ==
  <<myVel[1] + apply[1], IF variant = "wall" THEN myVel[2] ELSE 0, myVel[3] + apply[3]>>

\* steering written back: me.vel and me.pos (kinematic) or setLinvel (physics)
\* bodies.current[me.id]?.setLinvel: nothing is sent when no body is registered
Move(st, id, myVel, apply, dt) ==
  IF IsPhysics
  THEN IF st.bodies[id].present
       THEN [st EXCEPT !.bodies[id].vel = NewVel(myVel, apply),
                       !.log.linvel[id] = NewVel(myVel, apply)]
       ELSE st
  ELSE LET v == add(st.next[id].vel, <<apply[1], 0, apply[3]>>)
           p == add(st.next[id].pos,
                    <<Div(v[1] * dt, 20), Div(v[2] * dt, 20), Div(v[3] * dt, 20)>>)
       IN [st EXCEPT !.next[id].vel = v, !.next[id].pos = <<p[1], 0, p[3]>>]

\* ---- combat resolver -------------------------------------------------------
\* the cooldown gate: now - last >= cooldown
CooldownOver(nowv, last) ==
  nowv - last >= (IF IsPush THEN PUSH_COOLDOWN ELSE ATTACK_COOLDOWN)

InRange(to) ==
  lenSq(to[1], to[2], to[3]) <=
    (IF IsPush THEN PUSH_RANGE * PUSH_RANGE ELSE ATTACK_RANGE * ATTACK_RANGE)

\* melee: the target's hp drops, the attacker is stamped
Hit(st, id, tgt, nowv) ==
  [st EXCEPT !.next[tgt].hp = @ - ATTACK_DAMAGE,
             !.next[id].last = nowv,
             !.log.hits = @ \cup {[by |-> id, on |-> tgt, live |-> st.next[tgt].alive]}]

\* push: an impulse along the planar direction to the target, the attacker is stamped
Push(st, id, tgt, to, nowv) ==
  LET dir == norm(to[1], 0, to[3])
      imp == <<Div(dir[1] * PUSH_IMPULSE, 1000), 0, Div(dir[3] * PUSH_IMPULSE, 1000)>>
  IN IF st.bodies[tgt].present
     THEN [st EXCEPT !.bodies[tgt].vel = add(@, imp),
                     !.next[id].last = nowv,
                     !.log.impulses = @ \cup {[by |-> id, on |-> tgt, imp |-> imp,
                                                   live |-> st.next[tgt].alive]}]
     ELSE [st EXCEPT !.next[id].last = nowv]

\* myPos as the combat step reads it: the integrated position in the kinematic engine
Combat(st, id, myPos, tgt, nowv) ==
  IF tgt = None THEN st
  ELSE LET from == IF IsPhysics THEN myPos ELSE st.next[id].pos
           to == sub(getPos(st, tgt), from)
       IN IF InRange(to)
          THEN Strict(LAMBDA s :
                 IF CooldownOver(nowv, s.next[id].last)
                 THEN IF IsPush THEN Push(s, id, tgt, to, nowv) ELSE Hit(s, id, tgt, nowv)
                 ELSE s,
                 [st EXCEPT !.log.contacts = @ \cup {id}])
          ELSE st

\* ---- boundary / zone judge -------------------------------------------------
\* setEnabled(false) sent whether or not a body is registered
DisableUnguarded(st, id) ==
  [st EXCEPT !.bodies[id].enabled = FALSE, !.log.disabled = @ \cup {id}]

\* bodies.current[me.id]?.setEnabled(false)
Disable(st, id) ==
  IF st.bodies[id].present
  THEN [st EXCEPT !.bodies[id].enabled = FALSE, !.log.disabled = @ \cup {id}]
  ELSE st

\* me.alive = false, and the body disabled in the physics engines
Kill(st, id) ==
  LET s1 == [st EXCEPT !.next[id].alive = FALSE]
  IN IF IsPhysics THEN Disable(s1, id) ELSE s1

\* the judge with the ring-out test taken on the radius too
JudgeOnRadius(st, id, myPos) ==
  IF HasZone
  THEN IF st.next[id].hp <= 0 THEN Kill(st, id) ELSE st
  ELSE IF variant = "ringout"
  THEN IF lenSq(myPos[1], 0, myPos[3]) >= ARENA_RADIUS * ARENA_RADIUS
       THEN Kill(st, id) ELSE st
  ELSE st

\* the judge eliminating, in the wall engine, a bot found touching the wall
JudgeAtWall(st, id, myPos) ==
  IF HasZone
  THEN IF st.next[id].hp <= 0 THEN Kill(st, id) ELSE st
  ELSE IF variant = "ringout"
  THEN IF lenSq(myPos[1], 0, myPos[3]) > ARENA_RADIUS * ARENA_RADIUS
       THEN Kill(st, id) ELSE st
  ELSE IF lenSq(myPos[1], 0, myPos[3]) >= 151 * 151 THEN Kill(st, id) ELSE st

\* the end of a bot's turn: hp death, ring-out, or nothing (wall engine)
Judge(st, id, myPos) ==
  IF HasZone
  THEN IF st.next[id].hp <= 0 THEN Kill(st, id) ELSE st
  ELSE IF variant = "ringout"
  THEN IF lenSq(myPos[1], 0, myPos[3]) > ARENA_RADIUS * ARENA_RADIUS
       THEN Kill(st, id) ELSE st
  ELSE st

\* the storm taking a fixed amount per frame, whatever the frame's length
StormPerFrame(st, id, myPos, dt, radius) ==
  IF HasZone /\ OutsideZone(myPos, radius)
  THEN [st EXCEPT !.next[id].hp = @ - STORM_DPS, !.log.storm[id] = STORM_DPS]
  ELSE st

\* storm damage if outside the zone
Storm(st, id, myPos, dt, radius) ==
  IF HasZone /\ OutsideZone(myPos, radius)
  THEN [st EXCEPT !.next[id].hp = @ - STORM_DPS * dt, !.log.storm[id] = STORM_DPS * dt]
  ELSE st

\* ---- one bot's turn --------------------------------------------------------
\* steering, then combat, then the judge, for the target tgt
Act(s2, id, myPos, myVel, tgt, dt, nowv) ==
  Strict(LAMBDA apply :
    Strict(LAMBDA s3 :
      Strict(LAMBDA s4 : Judge(s4, id, myPos),
             Combat(s3, id, myPos, tgt, nowv)),
      Move(NoteSep(NotePull(s2, id, myPos), id, myPos), id, myVel, apply, dt)),
    Accel(Desired(s2, id, myPos, tgt), myVel, dt))

\* me.targetId as validated or picked, and the turn noted
SetTarget(s1, id, tgt) ==
  [s1 EXCEPT !.next[id].targetId = tgt, !.log.turns = @ \cup {id}]

\* the velocity the provider held when the bot's turn started, noted
NoteRead(st, id) == [st EXCEPT !.log.velRead[id] = RawVel(st, id)]

\* the body of the loop for an alive bot: storm, target, then the rest
Turn(st, id, dt, nowv, radius) ==
  LET myPos == getPos(st, id)
      myVel == getVel(st, id)
  IN Strict(LAMBDA s1 :
       Strict(LAMBDA tgt :
         Strict(LAMBDA s2 : Act(s2, id, myPos, myVel, tgt, dt, nowv),
                SetTarget(NoteScan(s1, id, myPos, myVel, tgt), id, tgt)),
         PickTarget(s1, id, myPos, myVel)),
       Storm(NoteRead(st, id), id, myPos, dt, radius))

\* the loop body run for dead bots too
ProcessBotUnchecked(st, id, dt, nowv, radius) ==
  Strict(LAMBDA s : Turn(s, id, dt, nowv, radius), st)

\* if (!me.alive) continue
ProcessBot(st, id, dt, nowv, radius) ==
  Strict(LAMBDA s : IF ~s.next[id].alive
                    THEN [s EXCEPT !.log.skipped = @ \cup {id}]
                    ELSE Turn(s, id, dt, nowv, radius), st)

\* "for (const me of next)" over the ids in the given order
RECURSIVE Loop(_, _, _, _, _)
Loop(st, order, dt, nowv, radius) ==
  IF order = <<>> THEN st
  ELSE Loop(ProcessBot(st, Head(order), dt, nowv, radius), Tail(order), dt, nowv, radius)

\* the array order 0, 1, ..., BOT_COUNT - 1
ArrayOrder == [i \in 1..BOT_COUNT |-> i - 1]

\* ---- queued eliminations (wall engine) -------------------------------------
\* eliminate(id): pendingElimsRef.current.add(id)
eliminate(pend, id) == pend \cup {id}

\* the pending pass left out: requests dropped without effect
ApplyPendingDropped(st, pend) == st

\* the pass over the pending set at the start of the frame
RECURSIVE ApplyPending(_, _)
ApplyPending(st, pend) ==
  IF pend = {} THEN st
  ELSE LET id == CHOOSE i \in pend : \A j \in pend : i <= j
       IN Strict(LAMBDA s : ApplyPending(s, pend \ {id}),
                 IF st.next[id].alive THEN Kill(st, id) ELSE st)

\* the pending set after the frame: cleared
ClearPending(pend) == {}

\* ---- the frame callback ----------------------------------------------------
\* next = bots.map(b => ({ ...b })), then the pending pass, then the loop
RunFrame(order, dt, nowv, radius) ==
  LET st0 == [next |-> bots, bodies |-> bodies, log |-> EmptyLog]
  IN Strict(LAMBDA st1 : Loop(st1, order, dt, nowv, radius),
            IF variant = "wall" THEN ApplyPending(st0, pendingElims) ELSE st0)

Frame(dt) ==
  /\ ticks < MaxTicks
  /\ \E z \in {ZoneStep(zone, dt)} :
       \E st \in {RunFrame(ArrayOrder, dt, now + dt, z.radius)} :
         /\ zone' = z
         /\ reactBots' = st.next
         /\ bodies' = st.bodies
         /\ log' = st.log
         /\ actedAt' = [i \in Ids |-> IF i \in Actors(st.log) THEN now + dt ELSE actedAt[i]]
  /\ now' = now + dt
  /\ pendingElims' = IF variant = "wall" THEN ClearPending(pendingElims) ELSE pendingElims
  /\ ticks' = ticks + 1
  /\ UNCHANGED <<variant, bots, aliveCount, winner>>

\* React renders the hook with the roster last handed to setBots
Render ==
  /\ bots # reactBots
  /\ bots' = reactBots
  /\ aliveCount' = CountAlive(reactBots)
  /\ winner' = WinnerOf(CountAlive(reactBots), reactBots)
  /\ UNCHANGED <<variant, reactBots, bodies, zone, now, pendingElims, log, actedAt,
                 ticks>>

\* ---- the physics world (external) ------------------------------------------
\* poses the solver may report (y = 0.5): a line of bots one unit apart
\*   spawn    bot 0 nearest the centre, each bot looking at the next one
\*   reverse  bot 0 farthest, each bot looking at the one before it
\*   edge     bot 0 against the wall of the melee arena, outside the first zone
\*   wallhug  bots 0 and 1 against the wall of the wall-touch arena
\*   out      bot 0 beyond the ring-out radius, bot 1 exactly on it
\*   lastin   every bot but the last beyond the ring-out radius
\*   firstin  every bot but bot 0 beyond the ring-out radius, bot 0 looking at them
\*   allout   every bot beyond the ring-out radius
Scenes == {"spawn", "reverse", "edge", "wallhug", "out", "lastin", "firstin", "allout"}

ScenePos(s, i) ==
  IF s = "spawn" THEN <<0, 5, 100 + 10 * i>>
  ELSE IF s = "reverse" THEN <<0, 5, 130 - 10 * i>>
  ELSE IF s = "edge" THEN <<0, 5, 306 - 10 * i>>
  ELSE IF s = "wallhug" THEN (IF i = 1 THEN <<10, 5, 152>> ELSE <<0, 5, 152 - 5 * i>>)
  ELSE IF s = "out" THEN <<0, 5, 325 - 5 * i>>
  ELSE IF s = "lastin" THEN (IF i = BOT_COUNT - 1 THEN <<0, 5, 100>> ELSE <<0, 5, 325 + 10 * i>>)
  ELSE IF s = "firstin" THEN (IF i = 0 THEN <<0, 5, 315>> ELSE <<0, 5, 325 + 10 * i>>)
  ELSE <<0, 5, 325 + 10 * i>>

SceneAllowed(s) ==
  \/ variant = "melee" /\ s \in {"spawn", "edge"}
  \/ variant = "wall" /\ s \in {"spawn", "wallhug"}
  \/ variant = "ringout" /\ s \in {"reverse", "out", "lastin", "firstin", "allout"}

\* the vertical velocity the solver leaves a body with: falling in the scenes
\* where the bodies drop onto the floor or off the platform, else at rest
SceneVy(s) == IF s \in {"spawn", "allout"} THEN -8 ELSE 0

\* a solver step: every enabled body takes the pose of the scene, at rest in the plane
PhysicsStep(s) ==
  /\ IsPhysics
  /\ ticks < MaxTicks
  /\ SceneAllowed(s)
  /\ bodies' = [i \in Ids |->
        IF bodies[i].present /\ bodies[i].enabled
        THEN [bodies[i] EXCEPT !.pos = ScenePos(s, i), !.vel = <<0, SceneVy(s), 0>>]
        ELSE bodies[i]]
  /\ bodies' # bodies
  /\ UNCHANGED <<variant, bots, reactBots, aliveCount, winner, zone, now,
                 pendingElims, log, actedAt, ticks>>

\* the body touches the wall ring: walls at radius - 0.25, capsule radius 0.4
AtWall(p) == lenSq(p[1], 0, p[3]) >= 151 * 151

\* Bot.onCollisionEnter with a wall: if (isWall && bot.alive) onHitWall(bot.id);
\* a disabled body no longer participates in physics and raises no event
OnCollisionEnter(id) ==
  /\ variant = "wall"
  /\ ticks < MaxTicks
  /\ bodies[id].present
  /\ bodies[id].enabled
  /\ AtWall(bodies[id].pos)
  /\ bots[id].alive
  /\ pendingElims' = eliminate(pendingElims, id)
  /\ UNCHANGED <<variant, bots, reactBots, aliveCount, winner, bodies, zone, now,
                 log, actedAt, ticks>>

\* the ids the eliminate function is called with from outside the engine
RequestIds == {0, 1}

\* the eliminate function the hook returns, called between frames
Eliminate(id) ==
  /\ variant = "wall"
  /\ ticks < MaxTicks
  /\ pendingElims' = eliminate(pendingElims, id)
  /\ UNCHANGED <<variant, bots, reactBots, aliveCount, winner, bodies, zone, now,
                 log, actedAt, ticks>>

\* ---- specification ---------------------------------------------------------
Init ==
  /\ variant \in Variants
  /\ bots = [i \in Ids |-> InitBot(i)]
  /\ reactBots = bots
  /\ aliveCount = BOT_COUNT
  /\ winner = None
  /\ bodies = [i \in Ids |-> [pos |-> <<0, 0, 0>>, vel |-> <<0, 0, 0>>, enabled |-> TRUE,
                              present |-> TRUE]]
  /\ zone = [t |-> 0, radius |-> ZONE_START_RADIUS]
  /\ now = 0
  /\ pendingElims = {}
  /\ log = EmptyLog
  /\ actedAt = [i \in Ids |-> NEVER]
  /\ ticks = 0

Next ==
  \/ \E dt \in DtSet : Frame(dt)
  \/ Render
  \/ \E s \in Scenes : PhysicsStep(s)
  \/ \E id \in Ids : OnCollisionEnter(id)
  \/ \E id \in RequestIds : Eliminate(id)

Spec == Init /\ [][Next]_vars

\* ---- the end of the shrink ----------------------------------------------------
\* the zone engines taken up 0.4 s before the zone timer runs out and when it has
\* run out, every bot still alive; in the kinematic engine bot 0 stands inside
\* the final zone (radius 4) and the others outside
EndStarts == {GAME_DURATION - 8, GAME_DURATION}
EndPos(i) == IF i = 0 THEN <<0, 0, 30>> ELSE SpawnPos(i)

EndInit ==
  /\ variant \in {"kinematic", "melee"}
  /\ bots = [i \in Ids |-> [InitBot(i) EXCEPT
                !.pos = IF variant = "kinematic" THEN EndPos(i) ELSE @]]
  /\ reactBots = bots
  /\ aliveCount = BOT_COUNT
  /\ winner = None
  /\ bodies = [i \in Ids |-> [pos |-> <<0, 0, 0>>, vel |-> <<0, 0, 0>>, enabled |-> TRUE,
                              present |-> TRUE]]
  /\ zone \in {[t |-> t0, radius |-> ZoneRadius(t0)] : t0 \in EndStarts}
  /\ now = zone.t
  /\ pendingElims = {}
  /\ log = EmptyLog
  /\ actedAt = [i \in Ids |-> NEVER]
  /\ ticks = 0

EndNext ==
  \/ \E dt \in DtSet : Frame(dt)
  \/ Render
  \/ \E s \in Scenes : PhysicsStep(s)

EndSpec == EndInit /\ [][EndNext]_vars

\* ---- frames run while bodies are not registered -----------------------------
\* bodies.current[id] is filled by the ref callback of each Bot; until then the
\* physics engines find no body under that id
MissingSets == {{0}, {1}, Ids}

MissingInit ==
  /\ variant \in {"ringout", "melee", "wall"}
  /\ bots = [i \in Ids |-> InitBot(i)]
  /\ reactBots = bots
  /\ aliveCount = BOT_COUNT
  /\ winner = None
  /\ \E m \in MissingSets :
       bodies = [i \in Ids |-> [pos |-> <<0, 0, 0>>, vel |-> <<0, 0, 0>>, enabled |-> TRUE,
                                present |-> i \notin m]]
  /\ zone = [t |-> 0, radius |-> ZONE_START_RADIUS]
  /\ now = 0
  /\ pendingElims = {}
  /\ log = EmptyLog
  /\ actedAt = [i \in Ids |-> NEVER]
  /\ ticks = 0

MissingSpec == MissingInit /\ [][Next]_vars

\* ---- the zone on its own ----------------------------------------------------
\* the zone ref is a function of the elapsed time only: the timer starts from
\* points of a game in progress and takes frame deltas up to a stall longer
\* than the whole shrink
ZoneStarts == {0, 1200, 2400, 3400, 3595}
ZoneDts == {0, 1, 4, 9, 110, 1000, 3600, 4000}

ZoneInit ==
  /\ variant \in {"kinematic", "melee"}
  /\ bots = [i \in Ids |-> InitBot(i)]
  /\ reactBots = bots
  /\ aliveCount = BOT_COUNT
  /\ winner = None
  /\ bodies = [i \in Ids |-> [pos |-> <<0, 0, 0>>, vel |-> <<0, 0, 0>>, enabled |-> TRUE,
                              present |-> TRUE]]
  /\ zone \in {[t |-> t0, radius |-> ZoneRadius(t0)] : t0 \in ZoneStarts}
  /\ now = 0
  /\ pendingElims = {}
  /\ log = EmptyLog
  /\ actedAt = [i \in Ids |-> NEVER]
  /\ ticks = 0

\* the zone shrink of a frame, the bots left aside
ZoneTick(dt) ==
  /\ ticks < MaxTicks
  /\ zone' = ZoneStep(zone, dt)
  /\ now' = now + dt
  /\ ticks' = ticks + 1
  /\ UNCHANGED <<variant, bots, reactBots, aliveCount, winner, bodies, pendingElims,
                 log, actedAt>>

ZoneNext == \E dt \in ZoneDts : ZoneTick(dt)

ZoneSpec == ZoneInit /\ [][ZoneNext]_vars

\* ---- properties ------------------------------------------------------------
\* C1 (monotonic elimination): no roster produced by a frame has alive = true
\* for a bot that had alive = false in the roster produced before it.
MonotonicElimination ==
  [][\A i \in Ids : ~reactBots[i].alive => ~reactBots'[i].alive]_vars

\* C2 (winner uniqueness): with exactly one bot alive in the rendered roster the
\* winner is that bot; with zero or at least two alive there is no winner; the
\* alive count is the number of alive bots.
WinnerUniqueness ==
  /\ aliveCount = Cardinality({j \in Ids : bots[j].alive})
  /\ \A i \in Ids : {j \in Ids : bots[j].alive} = {i} => winner = i
  /\ Cardinality({j \in Ids : bots[j].alive}) # 1 => winner = None

\* a winner has been declared: a single bot is alive in the rendered roster
WinnerDeclared ==
  \E i \in Ids : {j \in Ids : bots[j].alive} = {i} /\ winner = i /\ aliveCount = 1

\* C3 (round ends when one remains): a frame that starts from the roster of the
\* previous frame with exactly one bot alive leaves every bot's alive flag and
\* hit points as they were: the sole survivor is never damaged or eliminated.
SoleSurvivorStays ==
  [][(ticks' # ticks /\ bots = reactBots /\ Cardinality(AliveIds(bots)) = 1)
       => \A i \in Ids : /\ reactBots'[i].alive = bots[i].alive
                         /\ reactBots'[i].hp = bots[i].hp]_vars

\* C4 (death check after all damage): in the melee engines no roster produced by
\* a frame holds a bot with alive = true and hp <= 0.
DeathCheckAfterDamage ==
  HasZone => \A i \in Ids : reactBots[i].alive => reactBots[i].hp > 0

\* C5 (cooldown respect): a bot that hits or pushes in a frame did its previous
\* hit or push at least the cooldown earlier (0.45 s melee, 0.4 s push).
CooldownRespected ==
  [][\A a \in Ids :
       (ticks' # ticks /\ a \in Actors(log'))
         => now' - actedAt[a] >= (IF IsPush THEN PUSH_COOLDOWN ELSE ATTACK_COOLDOWN)]_vars

\* C6 (order independence): the frame run over the bots in reverse array order
\* produces the roster and the bodies of the frame run in array order.
OrderIndependence ==
  \A dt \in DtSet :
    LET radius == ZoneStep(zone, dt).radius
        fwd == RunFrame(ArrayOrder, dt, now + dt, radius)
        rev == RunFrame([k \in 1..BOT_COUNT |-> BOT_COUNT - k], dt, now + dt, radius)
    IN fwd.next = rev.next /\ fwd.bodies = rev.bodies

\* C7 (buffered elimination): within a frame every bot sees the alive flags the
\* frame started with, so an alive bot whose target was alive at the start of
\* the frame still holds that target when the frame ends, even if the target
\* died (hp or ring-out) in that frame.
BufferedElimination ==
  [][(ticks' # ticks /\ variant # "wall")
       => \A a, b \in Ids :
            (bots[a].alive /\ bots[b].alive /\ bots[a].targetId = b)
              => reactBots'[a].targetId = b]_vars

\* C8 (queued wall eliminations): a frame of the wall engine applies every
\* pending request before any bot takes its turn: the frame is the loop run from
\* the roster with the requested bots already dead and their bodies disabled;
\* none of them takes a turn, is commanded, pushes, is pushed or is targeted by
\* a bot that took a turn; the pending set is empty afterwards.
QueuedWallEliminations ==
  [][(variant = "wall" /\ ticks' # ticks)
       => LET dead == {i \in pendingElims : bots[i].alive}
              pre == [next |-> [i \in Ids |->
                                  IF i \in dead THEN [bots[i] EXCEPT !.alive = FALSE]
                                  ELSE bots[i]],
                      bodies |-> [i \in Ids |->
                                  IF i \in dead THEN [bodies[i] EXCEPT !.enabled = FALSE]
                                  ELSE bodies[i]],
                      log |-> [EmptyLog EXCEPT !.disabled = dead]]
              post == Loop(pre, ArrayOrder, now' - now, now', zone'.radius)
          IN /\ pendingElims' = {}
             /\ reactBots' = post.next
             /\ bodies' = post.bodies
             /\ log'.disabled = dead
             /\ \A id \in pendingElims :
                  /\ ~reactBots'[id].alive
                  /\ id \notin log'.turns
                  /\ log'.linvel[id] = NoCmd
                  /\ \A h \in log'.impulses : h.by # id /\ h.on # id
                  /\ \A a \in log'.turns : reactBots'[a].targetId # id]_vars

\* a frame of the wall engine has applied two requests and run the other bots
PendingApplied ==
  /\ variant = "wall"
  /\ Cardinality(log.disabled) >= 2
  /\ log.turns # {}
  /\ pendingElims = {}
  /\ \A id \in log.disabled : ~reactBots[id].alive

\* C9 (idempotent elimination): a request to eliminate a bot that was already
\* eliminated issues no second disable signal: every body a frame of the wall
\* engine disables was enabled before the frame.
IdempotentElimination ==
  [][(variant = "wall" /\ ticks' # ticks)
       => \A id \in log'.disabled : bodies[id].enabled]_vars

\* C10 (hp range): in the melee engines every bot's hp in a roster produced by a
\* frame lies in [0, 100].
HpRange ==
  HasZone => \A i \in Ids : reactBots[i].hp >= 0 /\ reactBots[i].hp <= FULL_HP

\* C11 (frozen after death): a bot that has alive = false in the roster a frame
\* produced has the same hp, targetId and last-action stamp in the roster the
\* next frame produces.
FrozenAfterDeath ==
  [][\A i \in Ids :
       ~reactBots[i].alive
         => /\ reactBots'[i].hp = reactBots[i].hp
            /\ reactBots'[i].targetId = reactBots[i].targetId
            /\ reactBots'[i].last = reactBots[i].last]_vars

\* C12 (fixed roster): the rendered roster and the roster handed to setBots
\* hold one record per index 0 .. BOT_COUNT - 1, the record at index i has id i,
\* and every targetId is an index whose record carries that id.
FixedRoster ==
  /\ DOMAIN bots = Ids /\ DOMAIN reactBots = Ids
  /\ \A i \in Ids : bots[i].id = i /\ reactBots[i].id = i
  /\ \A i \in Ids :
       reactBots[i].targetId # None
         => reactBots[i].targetId \in Ids /\ reactBots[reactBots[i].targetId].id = reactBots[i].targetId

\* two frames have run and the bots hold targets looked up by index
RosterAfterFrames ==
  /\ ticks = MaxTicks
  /\ bots = reactBots
  /\ \E i \in Ids : reactBots[i].targetId # None /\ ~reactBots[i].alive
  /\ \E i \in Ids : reactBots[i].targetId # None /\ reactBots[i].alive

\* C13 (self-healing stale target): a bot that takes its turn while its targetId
\* names a bot that is dead (in the roster the frame copied, or by the pending
\* pass) rescans before steering and combat: it ends the frame with another
\* target or none, it neither hits nor pushes a dead bot, and the frame produces
\* the roster and the bodies it produces when those targetIds are null from
\* the start.
SelfHealingTarget ==
  [][(ticks' # ticks)
       => LET pend == IF variant = "wall" THEN pendingElims ELSE {}
              gone == {i \in Ids : ~bots[i].alive} \cup pend
              healed == [i \in Ids |->
                           IF i \notin gone /\ bots[i].targetId \in gone
                           THEN [bots[i] EXCEPT !.targetId = None] ELSE bots[i]]
              dead == {i \in pend : bots[i].alive}
              st1 == [next |-> [i \in Ids |->
                                  IF i \in dead THEN [healed[i] EXCEPT !.alive = FALSE]
                                  ELSE healed[i]],
                      bodies |-> [i \in Ids |->
                                  IF i \in dead THEN [bodies[i] EXCEPT !.enabled = FALSE]
                                  ELSE bodies[i]],
                      log |-> [EmptyLog EXCEPT !.disabled = dead]]
              post == Loop(st1, ArrayOrder, now' - now, now', zone'.radius)
          IN /\ reactBots' = post.next
             /\ bodies' = post.bodies
             /\ \A a \in log'.turns :
                  bots[a].targetId \in gone
                    => /\ reactBots'[a].targetId \notin gone
                       /\ a \in {sc.by : sc \in log'.scans}
             /\ \A h \in log'.hits \cup log'.impulses : h.on \notin gone]_vars

\* a frame has run a bot whose sticky target was dead in the rendered roster
StaleTargetHealed ==
  /\ bots # reactBots
  /\ \E a, b \in Ids :
       /\ bots[a].alive /\ bots[a].targetId = b /\ ~bots[b].alive
       /\ a \in log.turns
       /\ reactBots[a].targetId # b

TargetChoice ==
  /\ LET P == [i \in Ids |-> IF i = 0 THEN <<0, 0, 0>> ELSE <<0, 0, 40 + 10 * i>>]
         st == [next |-> [i \in Ids |-> [InitBot(i) EXCEPT !.pos = P[i]]],
                bodies |-> [i \in Ids |->
                              [pos |-> P[i], vel |-> <<0, 0, 0>>, enabled |-> TRUE,
                               present |-> TRUE]],
                log |-> EmptyLog]
     IN PickTarget(st, 0, <<0, 0, 0>>, <<0, 0, 0>>) = 1
  /\ [][(ticks' # ticks)
          => \A sc \in log'.scans :
               LET dist(o) == LET to == sub(sc.seen[o].pos, sc.myPos)
                              IN lenSq(to[1], to[2], to[3])
                   cands == {o \in Ids \ {sc.by} :
                               /\ sc.seen[o].alive
                               /\ WithinHalfFov(sc.myVel, sub(sc.seen[o].pos, sc.myPos))}
               IN IF cands = {} THEN sc.pick = None
                  ELSE /\ sc.pick \in cands
                       /\ \A o \in cands :
                            /\ dist(sc.pick) <= dist(o)
                            /\ dist(o) = dist(sc.pick) => sc.pick <= o]_vars

\* a scan with two alive bots in view at the same distance has picked the lower id
TieTakenByLowestId ==
  \E sc \in log.scans :
    /\ sc.pick # None
    /\ \E o \in Ids \ {sc.by} :
         /\ o > sc.pick
         /\ sc.seen[o].alive
         /\ sc.seen[o].pos = sc.seen[sc.pick].pos

\* C16 (zone monotonicity): for frame deltas dt >= 0 the zone radius never grows
\* from one frame to the next, stays between ZONE_END_RADIUS and
\* ZONE_START_RADIUS, and equals ZONE_END_RADIUS once the timer has reached
\* GAME_DURATION, from then on.
ZoneMonotonicity ==
  [][/\ zone'.radius <= zone.radius
     /\ zone'.radius >= ZONE_END_RADIUS
     /\ zone'.radius <= ZONE_START_RADIUS
     /\ zone'.t >= zone.t /\ zone'.t <= GAME_DURATION
     /\ zone'.t = GAME_DURATION => zone'.radius = ZONE_END_RADIUS
     /\ zone.t = GAME_DURATION => zone'.t = GAME_DURATION]_vars

\* the timer reached GAME_DURATION in one frame and a later frame has run
ZoneEnded ==
  /\ zone.t = GAME_DURATION
  /\ zone.radius = ZONE_END_RADIUS
  /\ ticks = MaxTicks
  /\ now > 4000


\* C17 (melee quantum): in the melee engines a frame lowers a bot's hp by exactly
\* ATTACK_DPS * ATTACK_COOLDOWN (9.9) for every hit landed on it, apart from its
\* own storm damage, a hit stamps the attacker and nobody else, an attacker hits
\* at most once per frame, on the first frame it is in range of its target, and
\* not again until 0.45 s after its previous hit.
MeleeQuantum ==
  [][(ticks' # ticks /\ HasZone) =>
       LET hits == log'.hits
           hitsOn(t) == {h \in hits : h.on = t}
           hitsBy(a) == {h \in hits : h.by = a}
           at(t) == IF IsPhysics THEN bodies[t].pos ELSE reactBots[t].pos
           storm(t) == IF t \in log'.turns /\ OutsideZone(at(t), zone'.radius)
                       THEN STORM_DPS * (now' - now) ELSE 0
       IN /\ \A t \in Ids :
               reactBots'[t].hp =
                 reactBots[t].hp - ATTACK_DAMAGE * Cardinality(hitsOn(t)) - storm(t)
          /\ \A a \in Ids :
               /\ Cardinality(hitsBy(a)) <= 1
               /\ reactBots'[a].last = IF hitsBy(a) # {} THEN now' ELSE reactBots[a].last
               /\ hitsBy(a) # {} => now' - actedAt[a] >= ATTACK_COOLDOWN
               /\ (a \in log'.contacts /\ actedAt[a] = NEVER) => hitsBy(a) # {}]_vars


\* C18 (ring-out): in the ring-out engine a frame leaves dead every alive bot
\* whose body is farther than ARENA_RADIUS (32) from the centre in the plane, and
\* leaves alive every alive bot whose body is at ARENA_RADIUS or nearer.
RingOut ==
  [][(ticks' # ticks /\ variant = "ringout") =>
       \A i \in Ids :
         reactBots[i].alive =>
           (reactBots'[i].alive <=>
              lenSq(bodies[i].pos[1], 0, bodies[i].pos[3]) <= ARENA_RADIUS * ARENA_RADIUS)]_vars

\* a frame rang out a bot beyond the radius and kept a bot standing on it
RungOutBeyondRadius ==
  /\ variant = "ringout"
  /\ ticks > 0
  /\ \E i \in log.disabled :
       /\ ~reactBots[i].alive
       /\ lenSq(bodies[i].pos[1], 0, bodies[i].pos[3]) > ARENA_RADIUS * ARENA_RADIUS
  /\ \E j \in log.turns :
       /\ reactBots[j].alive
       /\ lenSq(bodies[j].pos[1], 0, bodies[j].pos[3]) = ARENA_RADIUS * ARENA_RADIUS


\* C19 (draw handling): when the render counts no bot alive no winner is named,
\* and every later frame leaves the roster and the bodies as they are, skips
\* every bot's turn and issues no velocity command, impulse, hit or disable.
DrawHandling ==
  /\ [](aliveCount = 0 => winner = None)
  /\ [][(ticks' # ticks /\ aliveCount = 0) =>
          /\ reactBots' = reactBots
          /\ bodies' = bodies
          /\ log' = [EmptyLog EXCEPT !.skipped = Ids]]_vars

\* all bots left together, the render counted none alive, and a frame ran after it
FrameAfterDraw ==
  /\ aliveCount = 0
  /\ winner = None
  /\ \A i \in Ids : ~bots[i].alive
  /\ ticks = MaxTicks
  /\ log = [EmptyLog EXCEPT !.skipped = Ids]


\* C20 (first action never blocked): a bot that has not yet hit or pushed and
\* finds its target within range in a frame hits or pushes in that frame: its
\* stamp is still the initial -999 and the clock is not negative, so the
\* cooldown gate passes.
FirstActionNeverBlocked ==
  /\ [](now >= 0)
  /\ [][\A a \in Ids :
          (ticks' # ticks /\ a \in log'.contacts /\ actedAt[a] = NEVER)
            => a \in Actors(log')]_vars

\* a bot that had a target but had not acted in the first frame reached it in
\* the second frame and acted there
FirstActionOnContact ==
  /\ ticks = MaxTicks
  /\ \E a \in log.contacts :
       /\ a \in Actors(log)
       /\ bots[a].last = NEVER
       /\ bots[a].targetId # None
       /\ reactBots[a].last = now


\* C21 (acceleration bound): for every bot that takes its turn in a frame, the
\* planar velocity the steering step commands (setLinvel, or me.vel in the
\* kinematic engine) differs from the planar velocity read at the start of its
\* turn by a vector no longer than BOT_ACCEL * dt.
AccelerationBound ==
  [][ticks' # ticks =>
       \A i \in log'.turns :
         LET read == log'.velRead[i]
             cmd == IF IsPhysics THEN log'.linvel[i] ELSE reactBots'[i].vel
             dx == cmd[1] - read[1]
             dz == cmd[3] - read[3]
             maxDv20 == BOT_ACCEL * (now' - now)
         IN 400 * (dx * dx + dz * dz) <= maxDv20 * maxDv20]_vars

\* a second frame in which a bot already moving was steered and its step was cut:
\* the velocity commanded is neither zero nor at BOT_SPEED, the two targets of
\* an uncut step
StepCutToLimit ==
  /\ ticks = MaxTicks
  /\ \E i \in log.turns :
       LET read == log.velRead[i]
           cmd == IF IsPhysics THEN log.linvel[i] ELSE reactBots[i].vel
           speedSq == cmd[1] * cmd[1] + cmd[3] * cmd[3]
       IN /\ <<read[1], read[3]>> # <<0, 0>>
          /\ <<cmd[1], cmd[3]>> # <<read[1], read[3]>>
          /\ speedSq > 0
          /\ speedSq < (BOT_SPEED - 2) * (BOT_SPEED - 2)


\* C22 (vertical velocity untouched): the velocity the steering step commands
\* for a bot has the vertical (y) component the pose provider held for that bot
\* when its turn started; only x and z are changed.
VerticalVelocityUntouched ==
  [][ticks' # ticks =>
       \A i \in log'.turns :
         LET cmd == IF IsPhysics THEN log'.linvel[i] ELSE reactBots'[i].vel
         IN cmd[2] = log'.velRead[i][2]]_vars


\* C23 (missing pose): in a frame run while a bot has no registered body, that
\* bot's position and velocity are read as (0,0,0), no velocity command, impulse
\* or disable is sent to it and its body slot stays as it is, while every alive
\* bot still takes its turn and every bot with a body gets its velocity command.
MissingPose ==
  [][ticks' # ticks =>
       LET gone == {m \in Ids : ~bodies[m].present}
       IN /\ \A m \in gone :
               /\ bodies'[m] = bodies[m]
               /\ log'.linvel[m] = NoCmd
               /\ m \notin log'.disabled
               /\ \A h \in log'.impulses : h.on # m
               /\ m \in log'.turns => log'.velRead[m] = <<0, 0, 0>>
          /\ \A sc \in log'.scans :
               /\ sc.by \in gone => (sc.myPos = <<0, 0, 0>> /\ sc.myVel = <<0, 0, 0>>)
               /\ \A m \in gone : sc.seen[m].pos = <<0, 0, 0>>
          /\ log'.turns = {i \in Ids : bots[i].alive /\ ~(variant = "wall" /\ i \in pendingElims)}
          /\ \A i \in log'.turns \ gone : log'.linvel[i] # NoCmd]_vars

\* a bot without a body was pushed at (the attacker is stamped, no impulse was
\* sent) and was later eliminated with no disable sent, while a bot with a body
\* was steered
MissingBodySkipped ==
  /\ ticks = MaxTicks
  /\ \E m \in Ids :
       /\ ~bodies[m].present
       /\ bodies[m].enabled
       /\ ~reactBots[m].alive
       /\ bots[m].alive
       /\ m \notin log.disabled
       /\ \E a \in Ids \ {m} :
            /\ bodies[a].present
            /\ reactBots[a].last # NEVER
            /\ actedAt[a] = NEVER
            /\ log.linvel[a] # NoCmd


\* C24 (lifecycle signal): in the physics engines a frame sends setEnabled(false)
\* for a bot exactly when that frame takes the bot's alive flag from true to
\* false, so that no later frame sends it for that bot again.
LifecycleSignal ==
  [][(ticks' # ticks /\ IsPhysics) =>
       \A i \in Ids :
         i \in log'.disabled <=> (reactBots[i].alive /\ ~reactBots'[i].alive)]_vars


StickyTargeting ==
  [][ticks' # ticks =>
       \A i \in Ids :
         (/\ reactBots[i].alive
          /\ reactBots[i].targetId # None
          /\ reactBots'[i].targetId # reactBots[i].targetId)
           => \E sc \in log'.scans :
                sc.by = i /\ ~sc.seen[reactBots[i].targetId].alive]_vars


\* C27 (storm damage): in the zone engines the storm step of a frame takes
\* exactly STORM_DPS * dt hp from every bot of the frame's roster that is alive
\* and farther from the centre than the zone radius as updated in that frame,
\* and nothing from a bot at that radius or nearer, nor from a dead bot; the hp
\* handed on is the hp read, less the storm's part and the hits landed.
StormDamage ==
  [][(ticks' # ticks /\ HasZone) =>
       \A i \in Ids :
         LET at == getPos([next |-> bots, bodies |-> bodies], i)
             hitsOn == {h \in log'.hits : h.on = i}
         IN /\ log'.storm[i] = IF bots[i].alive /\ OutsideZone(at, zone'.radius)
                               THEN STORM_DPS * (now' - now) ELSE 0
            /\ reactBots'[i].hp =
                 bots[i].hp - log'.storm[i] - ATTACK_DAMAGE * Cardinality(hitsOn)]_vars

\* a stalled frame in which the storm took 18 * 5.5 hp from a bot that the
\* shrink of that same frame had put outside, and nothing from a bot inside
StormOutsideUpdatedZone ==
  /\ variant = "melee"
  /\ ticks > 0
  /\ \E i, j \in log.turns :
       /\ log.storm[i] = STORM_DPS * 110
       /\ ~OutsideZone(bodies[i].pos, ZONE_START_RADIUS)
       /\ OutsideZone(bodies[i].pos, zone.radius)
       /\ log.storm[j] = 0
       /\ ~OutsideZone(bodies[j].pos, zone.radius)


\* C28 (push impulse): in the push engines every push of a frame sends to the
\* attacker's target, and to it alone, one impulse of magnitude PUSH_IMPULSE
\* (to the rounding of one unit per component) with no vertical part, along
\* the planar direction from the attacker to the target, whatever the two
\* positions within range; in the roster it stamps the attacker and nobody else.
PushImpulse ==
  [][(ticks' # ticks /\ IsPush) =>
       /\ \A h \in log'.impulses :
            LET dx == bodies[h.on].pos[1] - bodies[h.by].pos[1]
                dz == bodies[h.on].pos[3] - bodies[h.by].pos[3]
                magSq == lenSq(h.imp[1], h.imp[2], h.imp[3])
                cross == h.imp[1] * dz - h.imp[3] * dx
            IN /\ h.on = reactBots'[h.by].targetId
               /\ \A g \in log'.impulses : g.by = h.by => g = h
               /\ h.imp[2] = 0
               /\ magSq <= PUSH_IMPULSE * PUSH_IMPULSE
               /\ magSq >= (PUSH_IMPULSE - 2) * (PUSH_IMPULSE - 2)
               /\ h.imp[1] * dx + h.imp[3] * dz > 0
               /\ cross * cross <= 4 * (dx * dx + dz * dz)
       /\ \A i \in Ids :
            /\ reactBots'[i].last = IF i \in Actors(log') THEN now' ELSE bots[i].last
            /\ reactBots'[i].id = bots[i].id]_vars


\* C29 (normalization guard): norm of the zero vector is a unit vector, a fixed
\* reference direction, so that in every frame a push carries a non-zero impulse
\* and a bot at rest is steered with a non-zero velocity, also when it stands
\* on its goal.
NormalizationGuard ==
  /\ [](LET u == norm(0, 0, 0) IN lenSq(u[1], u[2], u[3]) = 1000 * 1000)
  /\ [][ticks' # ticks =>
          /\ \A h \in log'.impulses : h.imp # <<0, 0, 0>>
          /\ \A i \in log'.turns :
               LET read == log'.velRead[i]
                   cmd == IF IsPhysics THEN log'.linvel[i] ELSE reactBots'[i].vel
               IN (read[1] = 0 /\ read[3] = 0) => <<cmd[1], cmd[3]>> # <<0, 0>>]_vars


\* C30 (containment bias): in the zone engines the pull added to a bot's desired
\* vector is zero while the bot is at 90% of the arena radius or nearer to the
\* centre, and beyond that its strength grows with the distance: of two bots
\* past the threshold the farther one is pulled harder, and no pull is stronger
\* than the full gain (scale factor 1).
ContainmentBias ==
  [][(ticks' # ticks /\ HasZone) =>
       LET at(i) == getPos([next |-> bots, bodies |-> bodies], i)
           radSq(i) == lenSq(at(i)[1], 0, at(i)[3])
           past(i) == 100 * radSq(i) > 81 * ARENA_RADIUS * ARENA_RADIUS
           strSq(i) == lenSq(log'.pull[i][1], log'.pull[i][2], log'.pull[i][3])
       IN /\ \A i \in log'.turns :
               /\ ~past(i) => log'.pull[i] = <<0, 0, 0>>
               /\ strSq(i) <= (100 * PULL_GAIN) * (100 * PULL_GAIN)
          /\ \A i, j \in log'.turns :
               (past(i) /\ past(j) /\ radSq(i) < radSq(j)) => strSq(i) < strSq(j)]_vars

\* ---- C31 --------------------------------------------------------------------
\* C31 (coincident agents): in every frame, every pair the separation loop of an
\* alive bot looked at is a pair of the positions read in that frame; a pair at
\* planar distance exactly 0 adds the zero vector and is not counted as a
\* neighbour; a pair at planar distance d with 0 < d < BOT_SEPARATION is counted
\* and adds a vector of length (BOT_SEPARATION - d) / BOT_SEPARATION pointing
\* from the other bot to this one; and every other bot still alive at the end of
\* the frame was looked at by every bot that took a turn.
CoincidentAgents ==
  [][ticks' # ticks =>
      /\ \A r \in log'.sep :
           LET myP == IF IsPhysics
                      THEN IF bodies[r.by].present THEN bodies[r.by].pos ELSE <<0, 0, 0>>
                      ELSE bots[r.by].pos
               oP == IF IsPhysics
                     THEN IF bodies[r.on].present THEN bodies[r.on].pos ELSE <<0, 0, 0>>
                     ELSE IF r.on < r.by THEN reactBots'[r.on].pos ELSE bots[r.on].pos
               dx == r.d[1]
               dz == r.d[2]
               n == dx * dx + dz * dz
               m == Isqrt(r.f[1] * r.f[1] + r.f[2] * r.f[2])
               want == Div(1000 * (BOT_SEPARATION * 100 - Sqrt100(n)), BOT_SEPARATION * 100)
           IN /\ r.by # r.on
              /\ r.d = <<myP[1] - oP[1], myP[3] - oP[3]>>
              /\ n = 0 => r.f = <<0, 0, 0>>
              /\ (n > 0 /\ n < BOT_SEPARATION * BOT_SEPARATION) =>
                   /\ r.f[3] = 1
                   /\ Abs(m - want) <= 2
                   /\ r.f[1] * dx >= 0
                   /\ r.f[2] * dz >= 0
                   /\ Abs(r.f[1] * dz - r.f[2] * dx) <= Abs(dx) + Abs(dz)
      /\ \A i \in log'.turns : \A o \in Ids \ {i} :
           reactBots'[o].alive => \E r \in log'.sep : r.by = i /\ r.on = o
  ]_vars

\* a frame in which one bot's loop met a coincident alive bot and another pair
\* stood closer than BOT_SEPARATION
CoincidentPairMet ==
  /\ \E r \in log.sep : r.d = <<0, 0>> /\ reactBots[r.by].alive /\ reactBots[r.on].alive
  /\ \E r \in log.sep : r.d # <<0, 0>> /\ r.f[3] = 1

\* ---- C33 --------------------------------------------------------------------
\* C33 (roster continuity across frames): every frame builds its next roster
\* from the roster handed to setBots by the frame before it (the initial roster
\* for the first frame), so no frame revives a bot that the last written roster
\* had eliminated and no frame moves a cooldown stamp back.
RosterContinuity ==
  [][ticks' # ticks =>
      /\ bots = reactBots
      /\ \A i \in Ids :
           /\ ~reactBots[i].alive => ~reactBots'[i].alive
           /\ reactBots'[i].last >= reactBots[i].last
  ]_vars

\* ---- C32 --------------------------------------------------------------------
\* C32 (no action on or by the dead): in every frame of every engine, each melee
\* hit and each push impulse lands on a bot whose alive flag in the frame's
\* roster was true when it landed (so a bot the frame started with alive and,
\* in the wall engine, not eliminated by the pending pass); and a bot whose
\* alive flag was false when its turn came (every bot dead at the start of the
\* loop among them) took no turn: no velocity command, no hit, no push, and in
\* the kinematic engine no change of its velocity or position.
NoActionOnOrByTheDead ==
  [][ticks' # ticks =>
      /\ \A h \in log'.hits \cup log'.impulses :
           /\ h.live
           /\ bots[h.on].alive
           /\ variant = "wall" => h.on \notin pendingElims
           /\ h.by \notin log'.skipped
      /\ \A i \in Ids :
           (~bots[i].alive \/ (variant = "wall" /\ i \in pendingElims))
             => i \in log'.skipped
      /\ \A i \in log'.skipped :
           /\ ~reactBots'[i].alive
           /\ i \notin log'.turns
           /\ i \notin Actors(log')
           /\ log'.linvel[i] = NoCmd
           /\ reactBots'[i].last = bots[i].last
           /\ reactBots'[i].targetId = bots[i].targetId
           /\ ~IsPhysics => /\ reactBots'[i].vel = bots[i].vel
                            /\ reactBots'[i].pos = bots[i].pos
  ]_vars

\* a frame in which a dead bot's turn was skipped while another bot hit or
\* pushed its target
DeadSkippedWhileOthersAct ==
  /\ log.skipped # {}
  /\ log.hits \cup log.impulses # {}
  /\ log.turns # {}

\* ---- C34 --------------------------------------------------------------------
\* C34 (wall engine, sole elimination source): in every frame of the wall engine
\* the loop over the bots leaves every alive flag as the pending pass left it,
\* and disables no body; the bots that are alive in the frame's input roster and
\* dead in the roster the frame writes are exactly the alive bots named in the
\* pending set at the start of the frame; the same holds counted from the roster
\* the frame before wrote.
SoleEliminationSource ==
  [][(variant = "wall" /\ ticks' # ticks)
       => LET asked == {i \in pendingElims : bots[i].alive}
              pre == [next |-> [i \in Ids |->
                                  IF i \in asked THEN [bots[i] EXCEPT !.alive = FALSE]
                                  ELSE bots[i]],
                      bodies |-> [i \in Ids |->
                                  IF i \in asked /\ bodies[i].present
                                  THEN [bodies[i] EXCEPT !.enabled = FALSE]
                                  ELSE bodies[i]],
                      log |-> EmptyLog]
              post == Loop(pre, ArrayOrder, now' - now, now', zone'.radius)
          IN /\ \A i \in Ids : post.next[i].alive = pre.next[i].alive
             /\ post.log.disabled = {}
             /\ \A i \in Ids : reactBots'[i].alive = pre.next[i].alive
             /\ {i \in Ids : bots[i].alive /\ ~reactBots'[i].alive} = asked
             /\ {i \in Ids : reactBots[i].alive /\ ~reactBots'[i].alive}
                  = {i \in pendingElims : reactBots[i].alive}
             /\ log'.disabled \subseteq pendingElims]_vars

\* a frame of the wall engine has eliminated a requested bot while a bot that
\* kept its alive flag took its turn against the wall
WallTouchSurvivedTheLoop ==
  /\ variant = "wall"
  /\ ticks > 0
  /\ \E i \in Ids : bots[i].alive /\ ~reactBots[i].alive /\ i \in log.disabled
  /\ \E j \in log.turns :
       /\ reactBots[j].alive
       /\ bodies[j].present
       /\ AtWall(bodies[j].pos)

\* ---- C35 --------------------------------------------------------------------
\* C35 (target reference well-formedness): in the rendered roster and in the
\* roster handed to setBots every bot's targetId is null or an index in
\* 0 .. BOT_COUNT - 1 other than the bot's own id; and whenever a frame sets a
\* targetId to a bot, it is the pick of that bot's scan in the frame, another
\* bot whose alive flag was true in the frame's roster when the scan read it.
TargetWellFormed ==
  /\ [](\A i \in Ids : /\ bots[i].targetId \in ({None} \cup (Ids \ {i}))
                       /\ reactBots[i].targetId \in ({None} \cup (Ids \ {i})))
  /\ [][ticks' # ticks =>
         /\ \A sc \in log'.scans :
              /\ reactBots'[sc.by].targetId = sc.pick
              /\ sc.pick # None => /\ sc.pick \in Ids \ {sc.by}
                                   /\ sc.seen[sc.pick].alive
                                   /\ bots[sc.pick].alive
         /\ \A i \in Ids :
              reactBots'[i].targetId \notin {None, bots[i].targetId}
                => \E sc \in log'.scans : sc.by = i /\ sc.pick = reactBots'[i].targetId
     ]_vars

\* a frame has set a bot's target by a scan, and the rendered roster holds a
\* target reference to a bot that has since been eliminated
TargetSetAndOutlived ==
  /\ \E sc \in log.scans : sc.pick # None /\ reactBots[sc.by].targetId = sc.pick
  /\ \E i \in Ids : /\ reactBots[i].targetId # None
                    /\ ~reactBots[reactBots[i].targetId].alive

====
